---------------------------- MODULE Spec2Model ----------------------------
(***************************************************************************)
(* A model of the ROI projector: the request handler calculate_roi of      *)
(* src/app.py (validation, the cost model, the persistence of a           *)
(* projection and its session) and the learning engine CIPEngineROI of    *)
(* src/cip_engine_roi.py (log_patterns, _check_analysis_trigger,          *)
(* analyze_patterns), run by concurrent workers against one PostgreSQL     *)
(* store.                                                                  *)
(*                                                                         *)
(* Numbers.  hourly_cost and current_tools_cost are floats in the code;    *)
(* the model draws them from the integers, and carries every quotient      *)
(* (roi_percentage, the running averages, SQL AVG) as an exact fraction    *)
(* <<numerator, denominator>> in lowest terms.  A process name is a        *)
(* string; where the code searches it, the search runs over its spelling,  *)
(* a sequence of one-character strings.                                    *)
(***************************************************************************)
EXTENDS Integers, Sequences, FiniteSets, TLC

(***************************************************************************)
(* Program constants.                                                      *)
(***************************************************************************)
WeeksPerYear == 52
MonthsPerYear == 12
AutomationPercent == 65
OverOptimisticPercent == 80
HighVolumeHours == 40
ManyPeople == 5
HighVolumeScore == 2
ManyPeopleScore == 2
SimpleScoreMax == 2
MediumScoreMax == 4
SimpleCost == 8000
MediumCost == 12000
ComplexCost == 18000
LightUsageHours == 20
MediumUsageHours == 40
LightUsageCost == 200
MediumUsageCost == 400
HeavyUsageCost == 800
NeverBreaksEven == 999
LongBreakeven == 18
ComplexRisk == 5
StrongRoi == 200
StrongBreakeven == 12
GoodRoi == 100
GoodBreakeven == 18
ModerateRoi == 50
HighValueThreshold == 50000
AnalysisEvery == 10
MinGroupSize == 3
ConfidenceBestProcess == 95
ConfidenceBestIndustry == 90

(***************************************************************************)
(* Bounds of the model.                                                    *)
(***************************************************************************)
\* requests served in the patterns, edges and report environments
MaxRequests == 3
\* requests beyond the first analysis boundary served in the steady environment
ExtraRequests == 1
\* direct calls of analyze_patterns in the report environment
MaxJobs == 1
MaxFaults == 1

(***************************************************************************)
(* Exact fractions.                                                        *)
(***************************************************************************)
Abs(x) == IF x < 0 THEN -x ELSE x

Max(a, b) == IF a >= b THEN a ELSE b

RECURSIVE GCD(_, _)
GCD(a, b) == IF b = 0 THEN a ELSE GCD(b, a % b)

\* n/d in lowest terms, d > 0
Frac(n, d) == LET g == GCD(Abs(n), Abs(d))
                  s == IF d < 0 THEN -1 ELSE 1
              IN  <<s * (n \div g), s * (d \div g)>>

FromInt(n) == <<n, 1>>
FAdd(x, y) == Frac(x[1] * y[2] + y[1] * x[2], x[2] * y[2])
FMul(x, y) == Frac(x[1] * y[1], x[2] * y[2])
FDivInt(x, k) == Frac(x[1], x[2] * k)
FLess(x, y) == x[1] * y[2] < y[1] * x[2]
FIsZero(x) == x[1] = 0

(***************************************************************************)
(* Python's round(x) of a non-negative float n/d: the nearest integer,     *)
(* a tie going to the even one.                                            *)
(***************************************************************************)
round(n, d) == LET q == n \div d
                   r == n % d
               IN  IF 2 * r < d THEN q
                   ELSE IF 2 * r > d THEN q + 1
                   ELSE IF q % 2 = 0 THEN q ELSE q + 1

(***************************************************************************)
(* Strings as sequences of characters: str.lower() and the `in' operator.  *)
(***************************************************************************)
UpperCase == <<"A", "B", "C", "D", "E", "F", "G", "H", "I", "J", "K", "L", "M", "N", "O", "P", "Q", "R", "S", "T", "U", "V", "W", "X", "Y", "Z">>
LowerCase == <<"a", "b", "c", "d", "e", "f", "g", "h", "i", "j", "k", "l", "m", "n", "o", "p", "q", "r", "s", "t", "u", "v", "w", "x", "y", "z">>

lower_char(c) == IF \E i \in DOMAIN UpperCase : UpperCase[i] = c
                 THEN LowerCase[CHOOSE i \in DOMAIN UpperCase : UpperCase[i] = c]
                 ELSE c

lower(s) == [i \in DOMAIN s |-> lower_char(s[i])]

contains(s, sub) == \E i \in 1..(Len(s) - Len(sub) + 1) : SubSeq(s, i, i + Len(sub) - 1) = sub

kw_data == <<"d", "a", "t", "a">>
kw_analysis == <<"a", "n", "a", "l", "y", "s", "i", "s">>
kw_customer == <<"c", "u", "s", "t", "o", "m", "e", "r">>
kw_support == <<"s", "u", "p", "p", "o", "r", "t">>

(***************************************************************************)
(* The cost model of calculate_roi.                                        *)
(***************************************************************************)
\* the 400 answer: a required field is missing or zero
missing_required(d) == \/ d.process_name = ""
                          \/ d.hours_per_week = 0
                          \/ d.hourly_cost = 0

\* the spelling of each process name the clients send
spelling(name) ==
    CASE name = "" -> <<>>
      [] name = "Invoice Processing" -> <<"I", "n", "v", "o", "i", "c", "e", " ", "P", "r", "o", "c", "e", "s", "s", "i", "n", "g">>
      [] name = "Data Entry" -> <<"D", "a", "t", "a", " ", "E", "n", "t", "r", "y">>
      [] name = "Customer Data Support" -> <<"C", "u", "s", "t", "o", "m", "e", "r", " ", "D", "a", "t", "a", " ", "S", "u", "p", "p", "o", "r", "t">>
      [] name = "Invoice ANALYSIS" -> <<"I", "n", "v", "o", "i", "c", "e", " ", "A", "N", "A", "L", "Y", "S", "I", "S">>
      [] name = "Invoice Support" -> <<"I", "n", "v", "o", "i", "c", "e", " ", "S", "u", "p", "p", "o", "r", "t">>
      [] name = "Data Entry Customers" -> <<"D", "a", "t", "a", " ", "E", "n", "t", "r", "y", " ", "C", "u", "s", "t", "o", "m", "e", "r", "s">>

data_complexity(name) == \/ contains(lower(spelling(name)), kw_data)
                         \/ contains(lower(spelling(name)), kw_analysis)

customer_facing(name) == \/ contains(lower(spelling(name)), kw_customer)
                         \/ contains(lower(spelling(name)), kw_support)

complexity_score(d) ==
    (IF d.hours_per_week > HighVolumeHours THEN HighVolumeScore ELSE 0)
  + (IF d.people_count > ManyPeople THEN ManyPeopleScore ELSE 0)
  + (IF data_complexity(d.process_name) THEN 1 ELSE 0)
  + (IF customer_facing(d.process_name) THEN 1 ELSE 0)

\* the first two tiers exchanged
implementation_cost_swapped(score) ==
    IF score <= SimpleScoreMax THEN MediumCost
    ELSE IF score <= MediumScoreMax THEN SimpleCost
    ELSE ComplexCost

implementation_cost(score) ==
    IF score <= SimpleScoreMax THEN SimpleCost
    ELSE IF score <= MediumScoreMax THEN MediumCost
    ELSE ComplexCost

\* light usage up to the second threshold
monthly_ai_cost_light(hours) ==
    IF hours < MediumUsageHours THEN LightUsageCost
    ELSE HeavyUsageCost

monthly_ai_cost(hours) ==
    IF hours < LightUsageHours THEN LightUsageCost
    ELSE IF hours < MediumUsageHours THEN MediumUsageCost
    ELSE HeavyUsageCost

\* the rounded quotient without its minimum of one month
breakeven_months_unclamped(cost, savings) ==
    IF savings > 0 THEN round(cost * MonthsPerYear, savings)
    ELSE NeverBreaksEven

breakeven_months(cost, savings) ==
    IF savings > 0 THEN Max(1, round(cost * MonthsPerYear, savings))
    ELSE NeverBreaksEven

\* the savings test ahead of the complexity test
risk_level_savings_first(breakeven, score, savings, cost) ==
    IF AutomationPercent > OverOptimisticPercent THEN "High"
    ELSE IF breakeven > LongBreakeven THEN "High"
    ELSE IF savings < cost THEN "High"
    ELSE IF score > ComplexRisk THEN "Medium"
    ELSE "Low"

risk_level(breakeven, score, savings, cost) ==
    IF AutomationPercent > OverOptimisticPercent THEN "High"
    ELSE IF breakeven > LongBreakeven THEN "High"
    ELSE IF score > ComplexRisk THEN "Medium"
    ELSE IF savings < cost THEN "High"
    ELSE "Low"

\* which of the four recommendation texts is chosen
recommendation(roi, breakeven) ==
    IF FLess(FromInt(StrongRoi), roi) /\ breakeven <= StrongBreakeven THEN "strong"
    ELSE IF FLess(FromInt(GoodRoi), roi) /\ breakeven <= GoodBreakeven THEN "good"
    ELSE IF FLess(FromInt(ModerateRoi), roi) THEN "moderate"
    ELSE "concerns"

\* lines 54-163 of calculate_roi: every value the handler derives from the request
estimate(d) ==
    LET weekly == d.hours_per_week * d.hourly_cost * d.people_count
        labor == weekly * WeeksPerYear
        tools == d.current_tools_cost * MonthsPerYear
        current == labor + tools
        score == complexity_score(d)
        cost == implementation_cost(score)
        monthly == monthly_ai_cost(d.hours_per_week)
        withai == monthly * MonthsPerYear
        savings == current - withai
        roi == Frac((savings - cost) * 100, cost)
        breakeven == breakeven_months(cost, savings)
        risk == risk_level(breakeven, score, savings, cost)
    IN  [ weekly_cost |-> weekly,
          annual_labor_cost |-> labor,
          annual_tools_cost |-> tools,
          annual_cost_current |-> current,
          complexity_score |-> score,
          implementation_cost |-> cost,
          monthly_ai_cost |-> monthly,
          annual_ai_cost |-> withai,
          annual_savings |-> savings,
          roi_percentage |-> roi,
          breakeven_months |-> breakeven,
          risk_level |-> risk,
          recommendation |-> recommendation(roi, breakeven) ]

(***************************************************************************)
(* The store: the tables roi_projections, sessions, roi_patterns and       *)
(* roi_insights, and the workers' positions in their handlers.             *)
(***************************************************************************)
VARIABLES
    env,            \* which requests the clients send: "patterns", "edges", "report", "steady" or "faults"
    served,         \* POST /api/calculate requests received so far
    jobs,           \* direct calls of analyze_patterns so far
    projections,    \* roi_projections, in insertion order (row i has id i)
    sessions,       \* sessions: the projection_id of each
    patterns,       \* roi_patterns: (pattern_type, pattern_data) -> committed row
    insights,       \* roi_insights, in insertion order
    pc,             \* each worker's position
    data,           \* each worker's request.json
    result,         \* each worker's computed projection
    tx,             \* each worker's uncommitted roi_patterns writes (rows it has locked)
    top_processes,  \* analyze_patterns: first row of the process ranking, if any
    top_industries, \* analyze_patterns: first row of the industry ranking, if any
    folded,         \* history: the observations committed into each pattern, in order
    triggered,      \* history: analyze passes started by _check_analysis_trigger
    astart,         \* history: the rows of roi_projections when a worker's analyze pass began
    faults          \* history: the storage failures and aborts so far, with what each interrupted

vars == <<env, served, jobs, projections, sessions, patterns, insights, pc, data,
          result, tx, top_processes, top_industries, folded, triggered, astart, faults>>

Req == {1, 2}

None == <<>>

\* finite maps: the empty one, and f with k set to v
EmptyMap == [k \in {} |-> 0]

Put(f, k, v) == [x \in DOMAIN f \cup {k} |-> IF x = k THEN v ELSE f[x]]
NoData == [absent |-> TRUE]
NoResult == [absent |-> TRUE]

request(industry, name, hours, people, cost, tools) ==
    [ industry |-> industry, process_name |-> name, hours_per_week |-> hours,
      people_count |-> people, hourly_cost |-> cost, current_tools_cost |-> tools ]

\* the worked example: 30 h/week, 2 people, 40 an hour, no tools, no industry
InvoiceRequest == request(None, "Invoice Processing", 30, 2, 40, 0)
\* current cost equal to the AI cost: annual_savings = 0
ZeroSavingsRequest == request(<<"Retail">>, "Data Entry", 5, 1, 3, 135)
\* annual_savings equal to the implementation cost: roi_percentage = 0
ZeroRoiRequest == request(<<"Retail">>, "Invoice Processing", 10, 1, 20, 0)
\* a negative number of hours
NegativeHoursRequest == request(None, "Data Entry", -5, 1, 40, 0)
\* every complexity condition at once, savings below the implementation cost
ComplexRequest == request(<<"Retail">>, "Customer Data Support", 50, 6, 1, 650)
\* high volume, many people, large savings
LargeRequest == request(<<"Retail">>, "Invoice Processing", 50, 6, 40, 0)
\* requests with a required field missing or zero
NoNameRequest == request(None, "", 30, 2, 40, 0)
NoHoursRequest == request(<<"Retail">>, "Data Entry", 0, 6, 40, 135)
NoCostRequest == request(None, "Invoice Processing", 50, 1, 0, 650)

\* requests that share pattern keys
PatternRequests == { InvoiceRequest, ZeroRoiRequest, ComplexRequest, LargeRequest }
\* requests at the edges of the cost model and of the validation
EdgeRequests == { ZeroSavingsRequest, NegativeHoursRequest, LargeRequest,
                  NoNameRequest, NoHoursRequest, NoCostRequest }

\* requests of one industry, around direct calls of analyze_patterns
ReportRequests == { ComplexRequest, LargeRequest }
\* requests whose call of log_patterns runs all three statements
FaultRequests == { LargeRequest }

Requests(e) == CASE e = "patterns" -> PatternRequests
                 [] e = "edges" -> EdgeRequests
                 [] e = "report" -> ReportRequests
                 [] e = "steady" -> {InvoiceRequest}
                 [] e = "faults" -> FaultRequests
RequestLimit(e) == IF e = "steady" THEN AnalysisEvery + ExtraRequests ELSE MaxRequests
JobLimit(e) == IF e = "report" THEN MaxJobs ELSE 0
FaultLimit(e) == IF e = "faults" THEN MaxFaults ELSE 0

Init ==
    /\ env \in {"patterns", "edges", "report", "steady", "faults"}
    /\ served = 0
    /\ jobs = 0
    /\ projections = <<>>
    /\ sessions = <<>>
    /\ patterns = EmptyMap
    /\ insights = <<>>
    /\ pc = [r \in Req |-> "idle"]
    /\ data = [r \in Req |-> NoData]
    /\ result = [r \in Req |-> NoResult]
    /\ tx = [r \in Req |-> EmptyMap]
    /\ top_processes = [r \in Req |-> <<>>]
    /\ top_industries = [r \in Req |-> <<>>]
    /\ folded = EmptyMap
    /\ triggered = 0
    /\ astart = [r \in Req |-> 0]
    /\ faults = <<>>

(***************************************************************************)
(* calculate_roi, up to the commit of the projection and its session.      *)
(***************************************************************************)
calculate_roi(r, d) ==
    /\ pc[r] = "idle"
    /\ served < RequestLimit(env)
    /\ served' = served + 1
    /\ IF missing_required(d)
       THEN UNCHANGED <<pc, data, result>>
       ELSE /\ pc' = [pc EXCEPT ![r] = "store"]
            /\ data' = [data EXCEPT ![r] = d]
            /\ result' = [result EXCEPT ![r] = estimate(d)]
    /\ UNCHANGED <<faults, env, jobs, projections, sessions, patterns, insights, tx,
                   top_processes, top_industries, folded, triggered, astart>>

projection_row(d, res) ==
    [ industry |-> d.industry, process_name |-> d.process_name,
      hours_per_week |-> d.hours_per_week, people_count |-> d.people_count,
      hourly_cost |-> d.hourly_cost,
      annual_savings |-> res.annual_savings, implementation_cost |-> res.implementation_cost,
      breakeven_months |-> res.breakeven_months, roi_percentage |-> res.roi_percentage,
      risk_level |-> res.risk_level ]

store_projection(r) ==
    /\ pc[r] = "store"
    /\ projections' = Append(projections, projection_row(data[r], result[r]))
    /\ sessions' = Append(sessions, Len(projections) + 1)
    /\ pc' = [pc EXCEPT ![r] = "log_industry"]
    /\ UNCHANGED <<faults, env, served, jobs, patterns, insights, data, result, tx,
                   top_processes, top_industries, folded, triggered, astart>>

(***************************************************************************)
(* log_patterns: up to three INSERT ... ON CONFLICT DO UPDATE statements   *)
(* in one transaction on the engine's own connection, then the commit.     *)
(* PostgreSQL runs each statement atomically on its row: it waits while    *)
(* another transaction holds an uncommitted write of the same row, then    *)
(* merges into the row that transaction committed.                         *)
(***************************************************************************)
\* json.dumps of the pattern_data, after the pattern_type
industry_key(industry) == <<"industry_roi", "industry">> \o industry
process_key(name) == <<"process_savings", "process", name>>
high_value_key == <<"high_value", "type", "high_value", "threshold", "50000">>

\* Python's truth value of the request's industry (None and "" are false)
truthy(industry) == industry /= None /\ industry[1] /= ""

\* the conditions guarding the three statements
logs_industry(d, res) == truthy(d.industry) /\ res.annual_savings /= 0 /\ ~FIsZero(res.roi_percentage)
logs_process(d, res) == d.process_name /= "" /\ res.annual_savings /= 0
logs_high_value(res) == res.annual_savings /= 0 /\ res.annual_savings > HighValueThreshold

\* VALUES (..., 1, savings, roi): the row inserted when the key is new
inserted(savings, roi) == [frequency |-> 1, avg_savings |-> savings, avg_roi |-> roi]

\* a merge that divides by the old frequency
merged_old_divisor(row, savings, roi) ==
    [ frequency |-> row.frequency + 1,
      avg_savings |-> FDivInt(FAdd(FMul(row.avg_savings, FromInt(row.frequency)), savings), row.frequency),
      avg_roi |-> FDivInt(FAdd(FMul(row.avg_roi, FromInt(row.frequency)), roi), row.frequency) ]

\* a merge that halves the old average and the new observation (a decay)
merged_decay(row, savings, roi) ==
    [ frequency |-> row.frequency + 1,
      avg_savings |-> FDivInt(FAdd(row.avg_savings, savings), 2),
      avg_roi |-> FDivInt(FAdd(row.avg_roi, roi), 2) ]

\* DO UPDATE SET: the merge into the existing row
merged(row, savings, roi) ==
    [ frequency |-> row.frequency + 1,
      avg_savings |-> FDivInt(FAdd(FMul(row.avg_savings, FromInt(row.frequency)), savings), row.frequency + 1),
      avg_roi |-> FDivInt(FAdd(FMul(row.avg_roi, FromInt(row.frequency)), roi), row.frequency + 1) ]

\* a statement that never waits (a SELECT followed by an UPDATE)
never_locked(r, key) == FALSE

\* another transaction holds an uncommitted write of the row: the statement waits
locked_by_other(r, key) == \E o \in Req \ {r} : key \in DOMAIN tx[o]

upsert(r, key, savings, roi) ==
    /\ ~locked_by_other(r, key)
    /\ tx' = [tx EXCEPT ![r] = Put(tx[r], key,
                 IF key \in DOMAIN patterns
                 THEN merged(patterns[key], savings, roi)
                 ELSE inserted(savings, roi))]

log_industry_roi(r) ==
    /\ pc[r] = "log_industry"
    /\ IF logs_industry(data[r], result[r])
       THEN upsert(r, industry_key(data[r].industry),
                   FromInt(result[r].annual_savings), result[r].roi_percentage)
       ELSE tx' = tx
    /\ pc' = [pc EXCEPT ![r] = "log_process"]
    /\ UNCHANGED <<faults, env, served, jobs, projections, sessions, patterns, insights, data,
                   result, top_processes, top_industries, folded, triggered, astart>>

log_process_savings(r) ==
    /\ pc[r] = "log_process"
    /\ IF logs_process(data[r], result[r])
       THEN upsert(r, process_key(data[r].process_name),
                   FromInt(result[r].annual_savings), result[r].roi_percentage)
       ELSE tx' = tx
    /\ pc' = [pc EXCEPT ![r] = "log_high_value"]
    /\ UNCHANGED <<faults, env, served, jobs, projections, sessions, patterns, insights, data,
                   result, top_processes, top_industries, folded, triggered, astart>>

log_high_value(r) ==
    /\ pc[r] = "log_high_value"
    /\ IF logs_high_value(result[r])
       THEN upsert(r, high_value_key,
                   FromInt(result[r].annual_savings), result[r].roi_percentage)
       ELSE tx' = tx
    /\ pc' = [pc EXCEPT ![r] = "log_commit"]
    /\ UNCHANGED <<faults, env, served, jobs, projections, sessions, patterns, insights, data,
                   result, top_processes, top_industries, folded, triggered, astart>>

\* self.conn.commit(): the transaction's rows become the committed ones
log_commit(r) ==
    /\ pc[r] = "log_commit"
    /\ patterns' = [k \in DOMAIN patterns \cup DOMAIN tx[r] |->
                       IF k \in DOMAIN tx[r] THEN tx[r][k] ELSE patterns[k]]
    /\ folded' = [k \in DOMAIN folded \cup DOMAIN tx[r] |->
                       IF k \in DOMAIN tx[r]
                       THEN Append(IF k \in DOMAIN folded THEN folded[k] ELSE <<>>,
                                   <<FromInt(result[r].annual_savings), result[r].roi_percentage>>)
                       ELSE folded[k]]
    /\ tx' = [tx EXCEPT ![r] = EmptyMap]
    /\ pc' = [pc EXCEPT ![r] = "trigger"]
    /\ UNCHANGED <<faults, env, served, jobs, projections, sessions, insights, data, result,
                   top_processes, top_industries, triggered, astart>>

(***************************************************************************)
(* Failures inside log_patterns. Neither log_patterns nor calculate_roi     *)
(* catches an exception: a statement that fails ends the request there,    *)
(* before self.conn.commit(), and so does the death of the worker. The     *)
(* connection goes without a commit and PostgreSQL rolls its writes back.  *)
(***************************************************************************)
\* the keys of the statements one call of log_patterns executes
logged_keys(d, res) ==
    (IF logs_industry(d, res) THEN {industry_key(d.industry)} ELSE {})
    \cup (IF logs_process(d, res) THEN {process_key(d.process_name)} ELSE {})
    \cup (IF logs_high_value(res) THEN {high_value_key} ELSE {})

\* the statement a position of log_patterns executes, if its guard passes
executes(r) ==
    CASE pc[r] = "log_industry" -> logs_industry(data[r], result[r])
      [] pc[r] = "log_process" -> logs_process(data[r], result[r])
      [] pc[r] = "log_high_value" -> logs_high_value(result[r])
      [] OTHER -> FALSE

\* a handler that catches the exception and goes on with the next statement
skipped(position) ==
    CASE position = "log_industry" -> "log_process"
      [] position = "log_process" -> "log_high_value"
      [] OTHER -> "log_commit"

\* where an exception raised at a position of log_patterns leaves the worker:
\* out of log_patterns and out of calculate_roi, the request over
propagated(position) == "idle"

\* the worker's position, request and projection after it left its statement for `to`
interrupted(r, to) ==
    /\ pc' = [pc EXCEPT ![r] = to]
    /\ data' = [data EXCEPT ![r] = IF to = "idle" THEN NoData ELSE data[r]]
    /\ result' = [result EXCEPT ![r] = IF to = "idle" THEN NoResult ELSE result[r]]
    /\ tx' = [tx EXCEPT ![r] = EmptyMap]

\* cur.execute raises (the store is unavailable, the statement is refused)
statement_fails(r) ==
    /\ executes(r)
    /\ Len(faults) < FaultLimit(env)
    /\ faults' = Append(faults, [kind |-> "raised", position |-> pc[r], writes |-> DOMAIN tx[r]])
    /\ interrupted(r, propagated(pc[r]))
    /\ UNCHANGED <<env, served, jobs, projections, sessions, patterns, insights,
                   top_processes, top_industries, folded, triggered, astart>>

\* the caller goes away while log_patterns runs, before its commit
caller_aborts(r) ==
    /\ pc[r] \in {"log_industry", "log_process", "log_high_value", "log_commit"}
    /\ Len(faults) < FaultLimit(env)
    /\ faults' = Append(faults, [kind |-> "aborted", position |-> pc[r], writes |-> DOMAIN tx[r]])
    /\ interrupted(r, "idle")
    /\ UNCHANGED <<env, served, jobs, projections, sessions, patterns, insights,
                   top_processes, top_industries, folded, triggered, astart>>

(***************************************************************************)
(* _check_analysis_trigger: SELECT COUNT FROM roi_projections, and the     *)
(* analyze pass when the count is a multiple of ten.                       *)
(***************************************************************************)
analysis_due(count) == count % AnalysisEvery = 0

check_analysis_trigger(r) ==
    /\ pc[r] = "trigger"
    /\ IF analysis_due(Len(projections))
       THEN /\ pc' = [pc EXCEPT ![r] = "top_processes"]
            /\ triggered' = triggered + 1
            /\ astart' = [astart EXCEPT ![r] = Len(projections)]
            /\ UNCHANGED <<data, result>>
       ELSE /\ pc' = [pc EXCEPT ![r] = "idle"]
            /\ data' = [data EXCEPT ![r] = NoData]
            /\ result' = [result EXCEPT ![r] = NoResult]
            /\ UNCHANGED <<triggered, astart>>
    /\ UNCHANGED <<faults, env, served, jobs, projections, sessions, patterns, insights,
                   tx, top_processes, top_industries, folded>>

(***************************************************************************)
(* analyze_patterns: the two rankings over roi_projections (GROUP BY,      *)
(* HAVING COUNT >= 3, ORDER BY ... DESC), each read by its own statement,  *)
(* then one insight per non-empty ranking and the commit.                  *)
(***************************************************************************)
RECURSIVE sum_savings(_)
sum_savings(rows) == IF rows = <<>> THEN 0 ELSE Head(rows).annual_savings + sum_savings(Tail(rows))

RECURSIVE sum_roi(_)
sum_roi(rows) == IF rows = <<>> THEN FromInt(0) ELSE FAdd(Head(rows).roi_percentage, sum_roi(Tail(rows)))

\* one row of a GROUP BY: COUNT and the two AVG
group_row(subject, rows) ==
    [ subject |-> subject, frequency |-> Len(rows),
      avg_savings |-> Frac(sum_savings(rows), Len(rows)),
      avg_roi |-> FDivInt(sum_roi(rows), Len(rows)) ]

rows_of_process(table, p) == SelectSeq(table, LAMBDA x : x.process_name = p)
rows_of_industry(table, i) == SelectSeq(table, LAMBDA x : x.industry = i)

\* the process ranking without its HAVING clause
process_groups_all(table) ==
    { group_row(p, rows_of_process(table, p)) : p \in { table[i].process_name : i \in DOMAIN table } }

\* the groups that pass HAVING COUNT >= 3
process_groups(table) ==
    { group_row(p, rows_of_process(table, p)) :
        p \in { q \in { table[i].process_name : i \in DOMAIN table } :
                  Len(rows_of_process(table, q)) >= MinGroupSize } }

industry_groups(table) ==
    { group_row(i, rows_of_industry(table, i)) :
        i \in { j \in { table[n].industry : n \in DOMAIN table } :
                  j /= None /\ Len(rows_of_industry(table, j)) >= MinGroupSize } }

\* the rows that ORDER BY avg_roi DESC may put first (ties in any order)
best_by_roi(groups) == { g \in groups : \A h \in groups : ~FLess(g.avg_roi, h.avg_roi) }
best_by_savings(groups) == { g \in groups : \A h \in groups : ~FLess(g.avg_savings, h.avg_savings) }

analyze_top_processes(r) ==
    /\ pc[r] = "top_processes"
    /\ IF process_groups(projections) = {}
       THEN top_processes' = [top_processes EXCEPT ![r] = <<>>]
       ELSE \E g \in best_by_roi(process_groups(projections)) :
                top_processes' = [top_processes EXCEPT ![r] = <<g>>]
    /\ pc' = [pc EXCEPT ![r] = "top_industries"]
    /\ UNCHANGED <<faults, env, served, jobs, projections, sessions, patterns, insights, data,
                   result, tx, top_industries, folded, triggered, astart>>

analyze_top_industries(r) ==
    /\ pc[r] = "top_industries"
    /\ IF industry_groups(projections) = {}
       THEN top_industries' = [top_industries EXCEPT ![r] = <<>>]
       ELSE \E g \in best_by_savings(industry_groups(projections)) :
                top_industries' = [top_industries EXCEPT ![r] = <<g>>]
    /\ pc' = [pc EXCEPT ![r] = "insert_insights"]
    /\ UNCHANGED <<faults, env, served, jobs, projections, sessions, patterns, insights, data,
                   result, tx, top_processes, folded, triggered, astart>>

insight(type, confidence, row) ==
    [ insight_type |-> type, confidence |-> confidence, subject |-> row.subject,
      avg_roi |-> row.avg_roi, avg_savings |-> row.avg_savings, frequency |-> row.frequency ]

\* the insights one pass inserts, in order
new_insights(processes, industries) ==
    (IF processes /= <<>>
     THEN <<insight("best_roi_process", ConfidenceBestProcess, processes[1])>>
     ELSE <<>>)
    \o
    (IF industries /= <<>>
     THEN <<insight("best_savings_industry", ConfidenceBestIndustry, industries[1])>>
     ELSE <<>>)

\* a pass that rewrites roi_insights with its own rows
refreshed(table, rows) == rows

\* INSERT INTO roi_insights: the rows are added after the ones already there
insert_into(table, rows) == table \o rows

analyze_insert(r) ==
    /\ pc[r] = "insert_insights"
    /\ insights' = insert_into(insights, new_insights(top_processes[r], top_industries[r]))
    /\ top_processes' = [top_processes EXCEPT ![r] = <<>>]
    /\ top_industries' = [top_industries EXCEPT ![r] = <<>>]
    /\ pc' = [pc EXCEPT ![r] = "idle"]
    /\ data' = [data EXCEPT ![r] = NoData]
    /\ result' = [result EXCEPT ![r] = NoResult]
    /\ UNCHANGED <<faults, env, served, jobs, projections, sessions, patterns, tx,
                   folded, triggered, astart>>

\* a direct call of CIPEngineROI.analyze_patterns
analyze_patterns(r) ==
    /\ pc[r] = "idle"
    /\ jobs < JobLimit(env)
    /\ jobs' = jobs + 1
    /\ astart' = [astart EXCEPT ![r] = Len(projections)]
    /\ pc' = [pc EXCEPT ![r] = "top_processes"]
    /\ UNCHANGED <<faults, env, served, projections, sessions, patterns, insights, data, result,
                   tx, top_processes, top_industries, folded, triggered>>

Next ==
    \E r \in Req :
        \/ \E d \in Requests(env) : calculate_roi(r, d)
        \/ store_projection(r)
        \/ log_industry_roi(r)
        \/ log_process_savings(r)
        \/ log_high_value(r)
        \/ log_commit(r)
        \/ statement_fails(r)
        \/ caller_aborts(r)
        \/ check_analysis_trigger(r)
        \/ analyze_patterns(r)
        \/ analyze_top_processes(r)
        \/ analyze_top_industries(r)
        \/ analyze_insert(r)

Spec == Init /\ [][Next]_vars

(***************************************************************************)
(* The claims.                                                             *)
(***************************************************************************)
RECURSIVE sum_of(_, _)
sum_of(obs, i) == IF obs = <<>> THEN FromInt(0) ELSE FAdd(Head(obs)[i], sum_of(Tail(obs), i))

\* the arithmetic mean of component i of a non-empty sequence of observations
mean_of(obs, i) == FDivInt(sum_of(obs, i), Len(obs))

\* C1: every committed pattern row has frequency equal to the number of
\* observations folded into its key and avg_savings / avg_roi equal to the
\* arithmetic mean of exactly those observations.
C1_MeanOfFolded ==
    /\ DOMAIN patterns = DOMAIN folded
    /\ \A k \in DOMAIN patterns :
          /\ patterns[k].frequency = Len(folded[k])
          /\ patterns[k].avg_savings = mean_of(folded[k], 1)
          /\ patterns[k].avg_roi = mean_of(folded[k], 2)

\* a key holds three observations, not all alike, folded by both workers
C1_Witness ==
    \E k \in DOMAIN patterns :
        /\ patterns[k].frequency >= 3
        /\ \E i, j \in DOMAIN folded[k] : folded[k][i] /= folded[k][j]

\* C2: the commit of a fold raises the frequency of each key it wrote by
\* exactly one over the row committed just before it, and the row it commits
\* is the merge of its observation into that row: no fold merges into a row
\* another fold has since replaced.
C2_NoLostIncrement ==
    [][ \A r \in Req :
          (pc[r] = "log_commit" /\ pc'[r] = "trigger") =>
             \A k \in DOMAIN tx[r] :
                /\ patterns'[k].frequency =
                      (IF k \in DOMAIN patterns THEN patterns[k].frequency ELSE 0) + 1
                /\ patterns'[k] =
                      IF k \in DOMAIN patterns
                      THEN merged(patterns[k], FromInt(result[r].annual_savings), result[r].roi_percentage)
                      ELSE inserted(FromInt(result[r].annual_savings), result[r].roi_percentage) ]_vars

\* one worker holds an uncommitted write of the key the other worker's
\* statement is about to merge into
C2_Witness ==
    \E r, o \in Req :
        /\ r /= o
        /\ pc[r] = "log_process"
        /\ logs_process(data[r], result[r])
        /\ process_key(data[r].process_name) \in DOMAIN tx[o]
        /\ process_key(data[r].process_name) \in DOMAIN patterns

remove_one(obs, v) ==
    LET i == CHOOSE n \in DOMAIN obs : obs[n] = v
    IN  SubSeq(obs, 1, i - 1) \o SubSeq(obs, i + 1, Len(obs))

\* every order in which the observations of a sequence can be folded
RECURSIVE orders(_)
orders(obs) ==
    IF obs = <<>> THEN { <<>> }
    ELSE UNION { { <<v>> \o o : o \in orders(remove_one(obs, v)) } :
                   v \in { obs[n] : n \in DOMAIN obs } }

\* the row that folding a non-empty sequence of observations, in order, leaves
RECURSIVE fold_all(_)
fold_all(obs) ==
    IF Len(obs) = 1 THEN inserted(obs[1][1], obs[1][2])
    ELSE merged(fold_all(SubSeq(obs, 1, Len(obs) - 1)), obs[Len(obs)][1], obs[Len(obs)][2])

\* C3: folding the observations of a key in any order leaves the row the
\* store holds: the same frequency, avg_savings and avg_roi.
C3_OrderIndependent ==
    \A k \in DOMAIN folded : \A o \in orders(folded[k]) : fold_all(o) = patterns[k]

\* a key holds three observations that can be folded in more than one order
C3_Witness ==
    \E k \in DOMAIN folded : Len(folded[k]) >= 3 /\ Cardinality(orders(folded[k])) >= 3

\* the keys one fold is to upsert: the industry's if the request has one, the
\* process name's always, the high-value key above 50000 of savings
expected_keys(d, res) ==
    (IF d.industry /= None THEN { industry_key(d.industry) } ELSE {})
    \cup { process_key(d.process_name) }
    \cup (IF res.annual_savings > 50000 THEN { high_value_key } ELSE {})

\* C4: at its commit, a fold has upserted exactly the industry observation
\* (iff the industry is present), the process observation (always) and the
\* high-value observation (iff annual_savings > 50000).
C4_ExactlyTheseObservations ==
    \A r \in Req : pc[r] = "log_commit" => DOMAIN tx[r] = expected_keys(data[r], result[r])

\* C5: once no request is in flight, every multiple of ten the count of
\* projections has reached has had its analyze pass started by the trigger.
C5_AnalysisEveryTen ==
    (\A r \in Req : pc[r] = "idle") => triggered >= Len(projections) \div 10

\* the invariant of a ProjectionInput
valid_input(name, hours, cost) == name /= "" /\ hours > 0 /\ cost > 0

\* C6: a request whose process name is empty, whose hours/week is not > 0 or
\* whose hourly cost is not > 0 is rejected: no worker computes its
\* projection and no row of roi_projections comes from it.
C6_InvalidRejected ==
    /\ \A r \in Req : data[r] /= NoData =>
          valid_input(data[r].process_name, data[r].hours_per_week, data[r].hourly_cost)
    /\ \A i \in DOMAIN projections :
          valid_input(projections[i].process_name, projections[i].hours_per_week,
                      projections[i].hourly_cost)

\* C7 as stated: the worked example with monthly_ai_cost = 200,
\* annual_ai_cost = 2400, annual_savings = 122400 and roi_percentage = 1430.
C7_WorkedExampleAsStated ==
    \A r \in Req : data[r] = InvoiceRequest =>
        /\ result[r].weekly_cost = 2400
        /\ result[r].annual_cost_current = 124800
        /\ result[r].complexity_score = 0
        /\ result[r].implementation_cost = 8000
        /\ result[r].monthly_ai_cost = 200
        /\ result[r].annual_ai_cost = 2400
        /\ result[r].annual_savings = 122400
        /\ result[r].roi_percentage = FromInt(1430)
        /\ result[r].breakeven_months = 1
        /\ result[r].risk_level = "Low"
        /\ result[r].recommendation = "strong"

\* C7, amended: for hours/week = 30, people = 2, hourly_cost = 40,
\* tools_cost = 0, process "Invoice Processing" the estimator yields
\* weekly_cost = 2400, annual_cost_current = 124800, complexity_score = 0,
\* implementation_cost = 8000, monthly_ai_cost = 400, annual_ai_cost = 4800,
\* annual_savings = 120000, roi_percentage = 1400, breakeven_months = 1,
\* risk Low and the strongest recommendation tier.
C7_WorkedExample ==
    \A r \in Req : data[r] = InvoiceRequest =>
        /\ result[r].weekly_cost = 2400
        /\ result[r].annual_cost_current = 124800
        /\ result[r].complexity_score = 0
        /\ result[r].implementation_cost = 8000
        /\ result[r].monthly_ai_cost = 400
        /\ result[r].annual_ai_cost = 4800
        /\ result[r].annual_savings = 120000
        /\ result[r].roi_percentage = FromInt(1400)
        /\ result[r].breakeven_months = 1
        /\ result[r].risk_level = "Low"
        /\ result[r].recommendation = "strong"

\* a worker has computed the projection of the worked example
C7_Witness == \E r \in Req : data[r] = InvoiceRequest /\ pc[r] = "store"

\* b is max(1, n) for an integer n nearest to 12 * cost / savings
nearest_month(b, cost, savings) ==
    \E n \in 0..((12 * cost) \div savings + 1) :
        /\ 2 * Abs(12 * cost - n * savings) <= savings
        /\ b = Max(1, n)

\* C8: for every accepted request, annual_savings <= 0 gives breakeven_months
\* = 999, and annual_savings > 0 gives max(1, round(implementation_cost /
\* annual_savings * 12)), never below 1.
C8_Breakeven ==
    /\ \A r \in Req : result[r] /= NoResult =>
          IF result[r].annual_savings <= 0
          THEN result[r].breakeven_months = 999
          ELSE /\ result[r].breakeven_months >= 1
               /\ nearest_month(result[r].breakeven_months, result[r].implementation_cost,
                                result[r].annual_savings)
    /\ \A i \in DOMAIN projections :
          IF projections[i].annual_savings <= 0
          THEN projections[i].breakeven_months = 999
          ELSE /\ projections[i].breakeven_months >= 1
               /\ nearest_month(projections[i].breakeven_months,
                                projections[i].implementation_cost,
                                projections[i].annual_savings)

\* the table holds a projection without savings and one whose quotient rounds to 0
C8_Witness ==
    /\ \E i \in DOMAIN projections :
          projections[i].annual_savings <= 0 /\ projections[i].breakeven_months = 999
    /\ \E i \in DOMAIN projections :
          /\ projections[i].annual_savings > 24 * projections[i].implementation_cost
          /\ projections[i].breakeven_months = 1

\* the process names, and the industries, with at least 3 rows in a table
processes_with_three(table) ==
    { p \in { table[i].process_name : i \in DOMAIN table } :
        Cardinality({ i \in DOMAIN table : table[i].process_name = p }) >= 3 }

industries_with_three(table) ==
    { x \in { table[i].industry : i \in DOMAIN table } \ { None } :
        Cardinality({ i \in DOMAIN table : table[i].industry = x }) >= 3 }

\* C9: an analyze pass that ends while no process and no industry has 3
\* projections inserts no insight; one that ran while exactly one group had
\* 3 inserts exactly one insight: best_roi_process with confidence 0.95 for
\* a process group, best_savings_industry with confidence 0.90 for an
\* industry group.
C9_InsightsPerGroup ==
    [][ \A r \in Req :
          (pc[r] = "insert_insights" /\ pc'[r] = "idle") =>
             LET before == SubSeq(projections, 1, astart[r])
                 added == SubSeq(insights', Len(insights) + 1, Len(insights'))
             IN  /\ (processes_with_three(projections) = {} /\ industries_with_three(projections) = {})
                       => added = <<>>
                 /\ ( /\ industries_with_three(projections) = {}
                      /\ Cardinality(processes_with_three(projections)) = 1
                      /\ processes_with_three(before) = processes_with_three(projections) )
                       => /\ Len(added) = 1
                          /\ added[1].insight_type = "best_roi_process"
                          /\ added[1].confidence = 95
                          /\ added[1].subject \in processes_with_three(projections)
                 /\ ( /\ processes_with_three(projections) = {}
                      /\ Cardinality(industries_with_three(projections)) = 1
                      /\ industries_with_three(before) = industries_with_three(projections) )
                       => /\ Len(added) = 1
                          /\ added[1].insight_type = "best_savings_industry"
                          /\ added[1].confidence = 90
                          /\ added[1].subject \in industries_with_three(projections) ]_vars

\* one industry, and no process, has 3 projections, and the one pass that ran
\* has left one insight, about that industry
C9_Witness ==
    /\ processes_with_three(projections) = {}
    /\ Cardinality(industries_with_three(projections)) = 1
    /\ Len(insights) = 1
    /\ insights[1].insight_type = "best_savings_industry"
    /\ jobs = 1
    /\ \A r \in Req : pc[r] = "idle"

\* the triggering conditions a request satisfies
triggers(d) ==
    (IF d.hours_per_week > 40 THEN { "hours" } ELSE {})
    \cup (IF d.people_count > 5 THEN { "people" } ELSE {})
    \cup (IF data_complexity(d.process_name) THEN { "data" } ELSE {})
    \cup (IF customer_facing(d.process_name) THEN { "customer" } ELSE {})

\* one request for every set of triggering conditions
CostProbes ==
    { request(None, n, h, p, 40, 0) :
        n \in { "Invoice Processing", "Invoice ANALYSIS", "Invoice Support", "Data Entry Customers" },
        h \in { 30, 50 }, p \in { 2, 6 } }

\* each probe's triggering conditions and the implementation cost computed for it
ProbeCosts == { <<triggers(y), implementation_cost(complexity_score(y))>> : y \in CostProbes }

\* C10: the implementation cost a worker has just computed is 8000 for a
\* score <= 2, 12000 for 3-4 and 18000 above 4, and a request that satisfies
\* every triggering condition another satisfies, and more, never has the
\* lower implementation cost.
C10_CostMonotonic ==
    \A r \in Req : pc[r] = "store" =>
        /\ result[r].implementation_cost =
              (IF result[r].complexity_score <= 2 THEN 8000
               ELSE IF result[r].complexity_score <= 4 THEN 12000 ELSE 18000)
        /\ \A mine \in { triggers(data[r]) } :
               \A y \in ProbeCosts :
                  /\ mine \subseteq y[1] => result[r].implementation_cost <= y[2]
                  /\ y[1] \subseteq mine => y[2] <= result[r].implementation_cost

\* a worker's request is in the lowest tier and one more condition lifts it
C10_Witness ==
    \E r \in Req : pc[r] = "store" /\
        \E mine \in { triggers(data[r]) } : \E y \in ProbeCosts :
            /\ mine \subseteq y[1]
            /\ Cardinality(y[1]) = Cardinality(mine) + 1
            /\ result[r].implementation_cost < y[2]

\* the positions of a worker inside an analyze pass
AnalyzePositions == {"top_processes", "top_industries", "insert_insights"}

\* the number of insights the pass of worker r is about to insert
pending_insights(r) ==
    (IF top_processes[r] /= <<>> THEN 1 ELSE 0) + (IF top_industries[r] /= <<>> THEN 1 ELSE 0)

\* C11: every step of an analyze pass, a redundant pass on the same multiple
\* of ten included, leaves roi_projections, sessions and roi_patterns (committed
\* and uncommitted) as they are and keeps every insight already stored, in
\* place and unchanged; its last step adds exactly the insights of its
\* non-empty rankings after them, and its other steps add none.
C11_AnalyzeOnlyAppends ==
    [][\A r \in Req :
          (pc[r] \in AnalyzePositions /\ pc'[r] /= pc[r]) =>
              /\ projections' = projections
              /\ sessions' = sessions
              /\ patterns' = patterns
              /\ tx' = tx
              /\ Len(insights') = Len(insights)
                    + (IF pc[r] = "insert_insights" THEN pending_insights(r) ELSE 0)
              /\ SubSeq(insights', 1, Len(insights)) = insights
              /\ \A i \in (Len(insights) + 1)..Len(insights') :
                    insights'[i].insight_type \in {"best_roi_process", "best_savings_industry"}]_vars

\* two requests read the same count of ten, both ran the analysis, and the
\* second pass stored a duplicate of the first one's insight
C11_Witness ==
    /\ triggered = 2
    /\ astart[1] = AnalysisEvery /\ astart[2] = AnalysisEvery
    /\ \A r \in Req : pc[r] = "idle"
    /\ Len(insights) = 2
    /\ insights[1] = insights[2]
    /\ Len(projections) = AnalysisEvery

\* a simple process whose savings stay just below its implementation cost
SlowPaybackRequest == request(None, "Data Entry", 10, 1, 19, 0)

\* requests that reach every branch of the risk assessment
RiskProbes == { InvoiceRequest, ZeroSavingsRequest, ZeroRoiRequest, NegativeHoursRequest,
                ComplexRequest, LargeRequest, SlowPaybackRequest }

\* the risk level of a computed projection is the first match of the stated order
risk_as_stated(res) ==
    /\ AutomationPercent > 80 => res.risk_level = "High"
    /\ (AutomationPercent <= 80 /\ res.breakeven_months > 18) => res.risk_level = "High"
    /\ (AutomationPercent <= 80 /\ res.breakeven_months <= 18 /\ res.complexity_score > 5)
           => res.risk_level = "Medium"
    /\ (AutomationPercent <= 80 /\ res.breakeven_months <= 18 /\ res.complexity_score <= 5
           /\ res.annual_savings < res.implementation_cost) => res.risk_level = "High"
    /\ (AutomationPercent <= 80 /\ res.breakeven_months <= 18 /\ res.complexity_score <= 5
           /\ res.annual_savings >= res.implementation_cost) => res.risk_level = "Low"

RiskProbesAsStated == \A d \in RiskProbes : risk_as_stated(estimate(d))

\* C12: the risk level is the first match of: automation fraction > 0.8 High,
\* breakeven > 18 High, complexity score > 5 Medium, annual_savings <
\* implementation_cost High, otherwise Low; so a projection with breakeven
\* <= 18, score 6 and savings below the implementation cost is Medium. Checked
\* on every projection a worker has just computed and on a request for each branch.
C12_RiskPriority ==
    /\ RiskProbesAsStated
    /\ \A r \in Req : pc[r] = "store" => risk_as_stated(result[r])

\* a worker has computed a projection with breakeven <= 18, score 6 and
\* savings below the implementation cost, and rated it Medium
C12_Witness ==
    \E r \in Req :
        /\ pc[r] = "store"
        /\ result[r].breakeven_months <= 18
        /\ result[r].complexity_score = 6
        /\ result[r].annual_savings < result[r].implementation_cost
        /\ result[r].risk_level = "Medium"

\* the rows of roi_patterns a step has written or changed
changed_keys ==
    { k \in DOMAIN patterns' : k \notin DOMAIN patterns \/ patterns'[k] /= patterns[k] }

\* C13: a statement of log_patterns that fails ends the request at once (the
\* exception propagates, no later statement of the call runs), and a fold
\* is all-or-nothing: a failure or an abort before the commit leaves
\* roi_patterns as it was and discards the call's uncommitted writes, and
\* roi_patterns only ever changes by the commit of one call, which publishes
\* the rows of all the statements of that call together.
C13_FoldAllOrNothing ==
    [][/\ \A r \in Req :
            (Len(faults') > Len(faults) /\ pc'[r] /= pc[r]) =>
                /\ pc'[r] = "idle"
                /\ tx'[r] = EmptyMap
                /\ patterns' = patterns
                /\ folded' = folded
       /\ patterns' /= patterns =>
            \E r \in Req :
                /\ pc[r] = "log_commit" /\ pc'[r] = "trigger"
                /\ changed_keys = logged_keys(data[r], result[r])]_vars

\* a statement failed after earlier statements of the same call had written,
\* the request is over, and none of the rows it wrote is in roi_patterns
C13_Witness ==
    \E i \in DOMAIN faults :
        /\ faults[i].kind = "raised"
        /\ faults[i].position = "log_high_value"
        /\ Cardinality(faults[i].writes) = 2
        /\ \A k \in faults[i].writes : k \notin DOMAIN patterns
        /\ \A r \in Req : pc[r] = "idle"
        /\ Len(projections) = 1

\* the frequency of the process_savings pattern of a process name (0 when there is no row)
process_frequency(p) ==
    IF process_key(p) \in DOMAIN patterns THEN patterns[process_key(p)].frequency ELSE 0

\* the process names of the persisted projections and of the process_savings patterns
process_names ==
    { projections[i].process_name : i \in DOMAIN projections }
    \cup { k[3] : k \in { j \in DOMAIN patterns : j[1] = "process_savings" } }

\* C14: once every request in flight has finished, the frequency of the
\* process_savings pattern of each process name equals the number of
\* persisted projection rows with that process name.
C14_StoresConsistent ==
    (\A r \in Req : pc[r] = "idle") =>
        \A p \in process_names :
            process_frequency(p) = Len(rows_of_process(projections, p))

=============================================================================
